---- MODULE Spec2Model ----
(***************************************************************************)
(* Model of the chroma-search web service (src/main.py): the upload        *)
(* (ingestion) handler, the chat (query) handler and the collection        *)
(* management handlers, over an abstract vector store and an abstract      *)
(* embedding model.                                                        *)
(*                                                                         *)
(* File names and collection names are sequences of one-character strings, *)
(* so that endswith / replace / lower are computed as Python computes      *)
(* them.  Cell values, documents and messages are atomic tokens.           *)
(***************************************************************************)
EXTENDS Integers, Sequences, FiniteSets, TLC

VARIABLES
    embedding_model,  \* TRUE when the SentenceTransformer was loaded, FALSE for None
    chroma,           \* the persistent store: collection name -> set of records
    nextId,           \* source of fresh uuid4 identifiers
    lastReq,          \* the request handled last
    loop,             \* its batch loop: batch size used, batch that raised (or 0)
    resp,             \* the HTTP response to it
    calls,            \* the store / provider calls made while handling it
    up,               \* concurrent uploads: worker -> local state of upload_file
    base              \* the store when the first concurrent upload started

vars == <<embedding_model, chroma, nextId, lastReq, loop, resp, calls, up, base>>

(***************************************************************************)
(* Bounds                                                                  *)
(***************************************************************************)
MaxRows == 2        \* rows of an uploaded table
MaxIds == 3         \* identifiers handed out in one run

(***************************************************************************)
(* Strings as sequences of characters                                      *)
(***************************************************************************)
Csv == <<".", "c", "s", "v">>

EndsWith(s, suffix) ==
    /\ Len(s) >= Len(suffix)
    /\ SubSeq(s, Len(s) - Len(suffix) + 1, Len(s)) = suffix

\* str.replace(old, new): every non-overlapping occurrence, left to right
RECURSIVE Replace(_, _, _)
Replace(s, old, new) ==
    IF Len(s) < Len(old) THEN s
    ELSE IF SubSeq(s, 1, Len(old)) = old
         THEN new \o Replace(SubSeq(s, Len(old) + 1, Len(s)), old, new)
         ELSE <<Head(s)>> \o Replace(Tail(s), old, new)

LowerChar(c) ==
    CASE c = "A" -> "a"
      [] c = "B" -> "b"
      [] c = "C" -> "c"
      [] c = "S" -> "s"
      [] c = "V" -> "v"
      [] OTHER -> c

Lower(s) == [i \in 1..Len(s) |-> LowerChar(s[i])]

\* file.filename.replace('.csv', '').replace(' ', '_').lower()
CollectionName(filename) ==
    Lower(Replace(Replace(filename, Csv, <<>>), <<" ">>, <<"_">>))

\* file.filename.endswith('.csv')
IsCsv(filename) == EndsWith(filename, Csv)

(***************************************************************************)
(* Inputs                                                                  *)
(***************************************************************************)
Filenames ==
    { <<"a", ".", "c", "s", "v">>,                       \* a.csv
      <<"A", ".", "c", "s", "v", ".", "c", "s", "v">>,   \* A.csv.csv
      <<"a", " ", "B", ".", "c", "s", "v">>,             \* "a B.csv"
      <<"a", ".", "C", "S", "V">> }                      \* a.CSV

\* names a client may pass to chat and delete
Names == { <<"a">>, <<"z">> }

RequiredColumn == "Object_Text"

ValidColumns == {"Object_Text", "Part"}

\* the name of the text column differs in case
InvalidColumns == {"object_text", "Part"}

\* pd.notna
NotNa(v) == v # "nan"

\* str(val): an integer cell, a string cell, a missing cell
Str(v) ==
    CASE v = "int:1" -> "1"
      [] v = "str:x" -> "x"
      [] OTHER -> "nan"

\* the table contents used as inputs: rows 1 and 3 are equal, row 2 is all
\* missing values
CellAt(c, i) ==
    IF c = "Part"
    THEN (IF i % 2 = 1 THEN "int:1" ELSE "nan")
    ELSE (IF i % 3 = 2 THEN "nan" ELSE "str:x")

Table(cs, n) ==
    [columns |-> cs, rows |-> [i \in 1..n |-> [c \in cs |-> CellAt(c, i)]]]

Tables == { Table(ValidColumns, n) : n \in 0..MaxRows } \cup { Table(InvalidColumns, 1) }

\* a file: its name, whether pd.read_csv can parse it, and the parsed table
EmptyTable == [columns |-> {}, rows |-> <<>>]

Files ==
    { [filename |-> f, parses |-> TRUE, df |-> t] : f \in Filenames, t \in Tables }
    \cup { [filename |-> f, parses |-> FALSE, df |-> EmptyTable] : f \in Filenames }

batch_size == 100

\* the source's batch size, and scaled-down sizes that make a table of at
\* most MaxRows rows span several batches
BatchSizes == {1, 2, batch_size}

\* the external call that raises while a request is handled (at most one)
NoFault == [call |-> "none", batch |-> 0]

\* the faults that can show for a file: none before the store is reached,
\* and no batch beyond the last
UploadFaults(file, bs) ==
    IF ~(file.parses /\ RequiredColumn \in file.df.columns /\ IsCsv(file.filename))
    THEN {NoFault}
    ELSE {NoFault}
         \cup { [call |-> c, batch |-> 0] : c \in {"create", "get"} }
         \cup { [call |-> c, batch |-> k] :
                  c \in {"encode", "add"},
                  k \in 1..((Len(file.df.rows) + bs - 1) \div bs) }

(***************************************************************************)
(* The embedding model and the vector store                                *)
(***************************************************************************)
\* embedding_model.encode: deterministic, one vector per text
Encode(text) ==
    CASE text = "x" -> 3
      [] text = "1" -> 1
      [] text = "nan" -> 7
      [] OTHER -> 4

\* chroma_client.create_collection raises when the name is taken
CreateRaises(store, name) == name \in DOMAIN store

CreateCollection(store, name) ==
    [n \in DOMAIN store \cup {name} |-> IF n = name THEN {} ELSE store[n]]

\* chroma_client.get_collection raises when the name is unknown
GetRaises(store, name) == name \notin DOMAIN store

\* variant: the batch replaces what the collection held
AddM(records, batch) == batch

\* collection.add: the batch joins the records of the collection
Add(records, batch) == records \cup batch

\* chroma_client.delete_collection raises when the name is unknown
DeleteRaises(store, name) == name \notin DOMAIN store

EmptyStore == [n \in {} |-> {}]

\* variant: the delete takes every collection with it
DeleteCollectionM(store, name) == EmptyStore

\* chroma_client.delete_collection: the named collection goes, with its records
DeleteCollection(store, name) == [n \in DOMAIN store \ {name} |-> store[n]]

(***************************************************************************)
(* upload_file                                                             *)
(***************************************************************************)
Min(a, b) == IF a < b THEN a ELSE b

\* {col: str(val) for col, val in row.items()
\*      if col != 'Object_Text' and pd.notna(val)}
Metadata(row) ==
    [c \in {d \in DOMAIN row : d # RequiredColumn /\ NotNa(row[d])} |-> Str(row[c])]

Record(row, id) ==
    [id |-> id,
     document |-> Str(row[RequiredColumn]),
     metadata |-> Metadata(row),
     embedding |-> Encode(Str(row[RequiredColumn]))]

\* variant: the slice stops one row early
BatchRowsM(rows, i, bs) == SubSeq(rows, i + 1, Min(i + bs, Len(rows)) - 1)

\* df.iloc[i:i+batch_size], i counted from 0
BatchRows(rows, i, bs) == SubSeq(rows, i + 1, Min(i + bs, Len(rows)))

\* the documents, metadatas, ids and embeddings of one batch, row by row
BatchRecords(batch, id) == { Record(batch[j], id + j - 1) : j \in 1..Len(batch) }

Ids(records) == {r.id : r \in records}

\* variant: the batches written before the failure are rolled back
AfterFailureM(before, now) == before

\* what an upload that raises leaves in its collection: the except clause
\* re-raises and compensates nothing
AfterFailure(before, now) == now

\* the batch loop: the records of the collection, the next identifier, the
\* call that raised ("none" when the loop ran to its end) and the calls made
RECURSIVE ProcessBatches(_, _, _, _, _, _)
ProcessBatches(records, id, rows, i, bs, fault) ==
    IF i >= Len(rows)
    THEN [records |-> records, nextId |-> id, raised |-> "none", batch |-> 0,
          calls |-> <<>>]
    ELSE LET k == (i \div bs) + 1
             batch == BatchRows(rows, i, bs)
             id2 == id + Len(batch)
         IN  IF fault = [call |-> "encode", batch |-> k]
             THEN [records |-> records, nextId |-> id2, raised |-> "encode",
                   batch |-> k, calls |-> <<"encode">>]
             ELSE IF fault = [call |-> "add", batch |-> k]
             THEN [records |-> records, nextId |-> id2, raised |-> "add",
                   batch |-> k, calls |-> <<"encode", "add">>]
             ELSE LET rest == ProcessBatches(Add(records, BatchRecords(batch, id)),
                                             id2, rows, i + bs, bs, fault)
                  IN  [rest EXCEPT !.calls = <<"encode", "add">> \o @]

NoLoop == [bs |-> 0, raised |-> 0, first |-> 0]

Response(status, detail, cause, name, count, body) ==
    [status |-> status, detail |-> detail, cause |-> cause,
     collection_name |-> name, count |-> count, body |-> body]

\* variant: the model check comes first
UploadPrecheckM(filename, model) ==
    IF ~model THEN 500 ELSE IF ~IsCsv(filename) THEN 400 ELSE 200

\* the two checks made before the try block
UploadPrecheck(filename, model) ==
    IF ~IsCsv(filename) THEN 400 ELSE IF ~model THEN 500 ELSE 200

\* variant: an existing collection is replaced by a new, empty one
OpenCollectionM(store, name) == CreateCollection(store, name)

\* the store after "create, or get when create raises"
OpenCollection(store, name) ==
    IF CreateRaises(store, name) THEN store ELSE CreateCollection(store, name)

\* POST /upload, the whole handler
UploadFile(file, bs, fault) ==
    LET name == CollectionName(file.filename)
        rows == file.df.rows
        pre == UploadPrecheck(file.filename, embedding_model)
        createFails == CreateRaises(chroma, name) \/ fault.call = "create"
        getFails == GetRaises(chroma, name) \/ fault.call = "get"
        opened == OpenCollection(chroma, name)
        done == ProcessBatches(opened[name], nextId, rows, 0, bs, fault)
        req == [op |-> "upload", filename |-> file.filename, parses |-> file.parses,
                df |-> file.df]
        Error(cause) == Response(500, "Error processing file", cause, <<>>, 0, <<>>)
    IN  /\ nextId + Len(rows) - 1 <= MaxIds
        /\ lastReq' = req
        /\ UNCHANGED <<embedding_model, up, base>>
        /\ IF pre = 400
           THEN /\ resp' = Response(400, "Only CSV files are supported", "", <<>>, 0, <<>>)
                /\ calls' = <<>>
                /\ loop' = NoLoop
                /\ UNCHANGED <<chroma, nextId>>
           ELSE IF pre = 500
           THEN /\ resp' = Response(500, "Embedding model not loaded", "", <<>>, 0, <<>>)
                /\ calls' = <<>>
                /\ loop' = NoLoop
                /\ UNCHANGED <<chroma, nextId>>
           ELSE IF ~file.parses
           THEN /\ resp' = Error("read_csv")
                /\ calls' = <<>>
                /\ loop' = NoLoop
                /\ UNCHANGED <<chroma, nextId>>
           ELSE IF RequiredColumn \notin file.df.columns
           THEN \* the HTTPException(400) is raised inside the try block and
                \* caught by its "except Exception"
                /\ resp' = Error("400: CSV must contain 'Object_Text' column")
                /\ calls' = <<>>
                /\ loop' = NoLoop
                /\ UNCHANGED <<chroma, nextId>>
           ELSE IF createFails /\ getFails
           THEN /\ resp' = Error("get_collection")
                /\ calls' = <<"create_collection", "get_collection">>
                /\ loop' = NoLoop
                /\ UNCHANGED <<chroma, nextId>>
           ELSE /\ calls' = (IF createFails
                             THEN <<"create_collection", "get_collection">>
                             ELSE <<"create_collection">>) \o done.calls
                /\ nextId' = done.nextId
                /\ loop' = [bs |-> bs, raised |-> done.batch, first |-> nextId]
                /\ IF done.raised # "none"
                   THEN /\ resp' = Error(done.raised)
                        /\ chroma' = [opened EXCEPT
                                        ![name] = AfterFailure(opened[name], done.records)]
                   ELSE /\ resp' = Response(200, "Successfully uploaded", "", name,
                                            Len(rows), <<>>)
                        /\ chroma' = [opened EXCEPT ![name] = done.records]

(***************************************************************************)
(* chat_endpoint                                                           *)
(***************************************************************************)
Messages == {"", "x"}

\* request bodies: not JSON at all, JSON that is no object, and objects
\* (an absent "message" reads as "", an absent "collection" as <<>>)
ChatBodies ==
    { [json |-> j, message |-> "", collection |-> <<>>] : j \in {"malformed", "array"} }
    \cup { [json |-> "object", message |-> m, collection |-> c] :
             m \in Messages, c \in Names \cup {<<>>} }

\* get_collection also raises by itself, on an unknown name
ChatFaults == {"none", "list_collections", "encode", "query"}

n_results == 5

Abs(x) == IF x < 0 THEN -x ELSE x

\* the store's distance between two embeddings, in 1/10000
Distance(q, e) == Abs(q - e) * 2000

\* collection.query: the n nearest records, nearest first
RECURSIVE Nearest(_, _, _)
Nearest(records, q, n) ==
    IF n = 0 \/ records = {} THEN <<>>
    ELSE LET best == CHOOSE r \in records : \A t \in records :
                        \/ Distance(q, r.embedding) < Distance(q, t.embedding)
                        \/ /\ Distance(q, r.embedding) = Distance(q, t.embedding)
                           /\ r.id <= t.id
         IN  <<best>> \o Nearest(records \ {best}, q, n - 1)

\* the lines of one result: header with rank and similarity, the document,
\* the metadata line when metadata remains, a blank line
FormatResult(i, r) ==
    LET similarity == 10000 - Distance(r.q, r.rec.embedding)
        info == [k \in DOMAIN r.rec.metadata \ {RequiredColumn} |-> r.rec.metadata[k]]
        header == [line |-> "result", rank |-> i, similarity |-> similarity,
                   document |-> r.rec.document, info |-> EmptyStore]
    IN  <<header>>
        \o (IF DOMAIN info # {}
            THEN <<[header EXCEPT !.line = "info", !.info = info]>>
            ELSE <<>>)
        \o <<[header EXCEPT !.line = "blank"]>>

RECURSIVE FormatFrom(_, _, _)
FormatFrom(results, q, i) ==
    IF i > Len(results) THEN <<>>
    ELSE FormatResult(i, [q |-> q, rec |-> results[i]]) \o FormatFrom(results, q, i + 1)

\* variant: the model check comes first
ChatPrecheckM(message, model) ==
    IF ~model THEN "model" ELSE IF message = "" THEN "message" ELSE "ok"

\* the checks made before the try block, in the order of the code
ChatPrecheck(message, model) ==
    IF message = "" THEN "message" ELSE IF ~model THEN "model" ELSE "ok"

\* POST /chat, the whole handler; first is collections[0].name
ChatEndpoint(body, fault, first) ==
    LET pre == ChatPrecheck(body.message, embedding_model)
        name == IF body.collection = <<>> THEN first ELSE body.collection
        q == Encode(body.message)
        Soft(detail, cause) == Response(200, detail, cause, <<>>, 0, <<>>)
        Caught(cause) == Soft("Error searching", cause)
    IN  /\ lastReq' = [op |-> "chat", body |-> body]
        /\ loop' = NoLoop
        /\ UNCHANGED <<embedding_model, chroma, nextId, up, base>>
        /\ IF body.json = "malformed"
           THEN \* request.json() raises outside the try block
                /\ resp' = Response(500, "Internal Server Error", "JSONDecodeError",
                                    <<>>, 0, <<>>)
                /\ calls' = <<>>
           ELSE IF body.json # "object"
           THEN \* data.get raises outside the try block
                /\ resp' = Response(500, "Internal Server Error", "AttributeError",
                                    <<>>, 0, <<>>)
                /\ calls' = <<>>
           ELSE IF pre = "message"
           THEN /\ resp' = Soft("Please provide a message to search.", "")
                /\ calls' = <<>>
           ELSE IF pre = "model"
           THEN /\ resp' = Soft("Embedding model not loaded.", "")
                /\ calls' = <<>>
           ELSE IF fault = "list_collections"
           THEN /\ resp' = Caught(fault)
                /\ calls' = <<"list_collections">>
           ELSE IF DOMAIN chroma = {}
           THEN /\ resp' = Soft("No data collections available.", "")
                /\ calls' = <<"list_collections">>
           ELSE IF fault = "get_collection" \/ GetRaises(chroma, name)
           THEN /\ resp' = Caught("get_collection")
                /\ calls' = <<"list_collections", "get_collection">>
           ELSE IF fault = "encode"
           THEN /\ resp' = Caught(fault)
                /\ calls' = <<"list_collections", "get_collection", "encode">>
           ELSE IF fault = "query"
           THEN /\ resp' = Caught(fault)
                /\ calls' = <<"list_collections", "get_collection", "encode", "query">>
           ELSE /\ calls' = <<"list_collections", "get_collection", "encode", "query">>
                /\ LET results == Nearest(chroma[name], q, n_results)
                   IN  resp' = IF results = <<>>
                               THEN Soft("No relevant results found for your query.", "")
                               ELSE Response(200, "results", "", name, Len(results),
                                             FormatFrom(results, q, 1))

(***************************************************************************)
(* get_collections, delete_collection                                      *)
(***************************************************************************)
\* GET /collections
GetCollections(fault) ==
    /\ lastReq' = [op |-> "list"]
    /\ loop' = NoLoop
    /\ UNCHANGED <<embedding_model, chroma, nextId, up, base>>
    /\ calls' = <<"list_collections">>
    /\ resp' = IF fault
               THEN Response(500, "Error getting collections", "list_collections",
                             <<>>, 0, {})
               ELSE Response(200, "", "", <<>>, 0,
                             { [name |-> n, count |-> Cardinality(chroma[n])] :
                                 n \in DOMAIN chroma })

\* DELETE /collections/{collection_name}
DeleteCollectionEndpoint(name) ==
    /\ lastReq' = [op |-> "delete", name |-> name]
    /\ loop' = NoLoop
    /\ UNCHANGED <<embedding_model, nextId, up, base>>
    /\ calls' = <<"delete_collection">>
    /\ IF DeleteRaises(chroma, name)
       THEN /\ resp' = Response(500, "Error deleting collection", "delete_collection",
                                name, 0, <<>>)
            /\ UNCHANGED chroma
       ELSE /\ resp' = Response(200, "deleted successfully", "", name, 0, <<>>)
            /\ chroma' = DeleteCollection(chroma, name)

(***************************************************************************)
(* Start-up and the sequential specification                               *)
(***************************************************************************)
NoRequest == [op |-> "none"]

NoResponse == Response(0, "", "", <<>>, 0, <<>>)

NoFile == [filename |-> <<>>, parses |-> FALSE, df |-> EmptyTable]

Idle == [pc |-> "idle", file |-> NoFile, bs |-> 0, i |-> 0, written |-> {}, status |-> 0]

Workers == {1, 2}

\* module initialisation: the model loads, or loading raises and the handle
\* is None; the store is the persistent directory
Init ==
    /\ embedding_model \in BOOLEAN
    /\ chroma = EmptyStore
    /\ nextId = 1
    /\ lastReq = NoRequest
    /\ loop = NoLoop
    /\ resp = NoResponse
    /\ calls = <<>>
    /\ up = [w \in Workers |-> Idle]
    /\ base = EmptyStore

\* the process is started again over the same persistent store
Restart ==
    /\ embedding_model' \in BOOLEAN
    /\ lastReq' = NoRequest
    /\ loop' = NoLoop
    /\ resp' = NoResponse
    /\ calls' = <<>>
    /\ UNCHANGED <<chroma, nextId, up, base>>

Upload == \E file \in Files, bs \in BatchSizes :
              \E fault \in UploadFaults(file, bs) : UploadFile(file, bs, fault)

\* a fault shows only when the handler reaches the try block, and the first
\* listed collection matters only when the request names none
Chat == \E body \in ChatBodies :
            \E fault \in (IF body.json = "object" /\ body.message # "" /\ embedding_model
                          THEN ChatFaults ELSE {"none"}) :
                \E first \in (IF DOMAIN chroma = {} \/ body.collection # <<>>
                              THEN {<<>>} ELSE DOMAIN chroma) :
                    ChatEndpoint(body, fault, first)

List == \E fault \in BOOLEAN : GetCollections(fault)

Delete == \E name \in Names : DeleteCollectionEndpoint(name)

Next == Restart \/ Upload \/ Chat \/ List \/ Delete

Spec == Init /\ [][Next]_vars

(***************************************************************************)
(* Two uploads whose store calls interleave                                *)
(*                                                                         *)
(* Each worker runs upload_file once, one store call per step: the checks  *)
(* before the store, create_collection, get_collection when that raised,   *)
(* one encode + add per batch, the return.  No call raises for a reason    *)
(* other than the state of the store.  Before the first worker begins,     *)
(* whole uploads fill the store.                                           *)
(***************************************************************************)
InProgress(w) == up[w].pc \in {"create", "get", "batch"}

\* identifiers the uploads in progress still need
Reserved == LET Need(w) == IF InProgress(w) THEN Len(up[w].file.df.rows) - up[w].i ELSE 0
            IN  Need(1) + Need(2)

\* variant: no fallback, a taken name fails the upload
AfterCreateM(raised) == IF raised THEN "failed" ELSE "batch"

\* where upload_file goes after create_collection: the bare except falls
\* back to get_collection
AfterCreate(raised) == IF raised THEN "get" ELSE "batch"

\* the files the two workers upload: parsable tables with the required
\* column, under every filename
ConcFiles == { f \in Files : f.parses /\ RequiredColumn \in f.df.columns }

\* one earlier upload that went through
Prior ==
    /\ \A w \in Workers : up[w].pc = "idle"
    /\ nextId = 1
    /\ \E file \in ConcFiles : UploadFile(file, batch_size, NoFault)
    /\ resp'.status = 200

\* the request arrives: the filename and model checks, read_csv, the
\* column check, the collection name
Begin(w) ==
    /\ up[w].pc = "idle"
    /\ w = 1 \/ up[1].pc # "idle"
    /\ \E file \in ConcFiles, bs \in BatchSizes :
          LET pre == UploadPrecheck(file.filename, embedding_model)
              valid == pre = 200 /\ file.parses /\ RequiredColumn \in file.df.columns
          IN  /\ nextId + Reserved + Len(file.df.rows) - 1 <= MaxIds
              /\ up' = [up EXCEPT ![w] =
                          [pc |-> IF valid THEN "create" ELSE "failed",
                           file |-> file, bs |-> bs, i |-> 0, written |-> {},
                           status |-> IF valid THEN 0 ELSE IF pre = 400 THEN 400 ELSE 500]]
    /\ base' = IF \A v \in Workers : up[v].pc = "idle" THEN chroma ELSE base
    /\ UNCHANGED <<embedding_model, chroma, nextId, lastReq, loop, resp, calls>>

CreateStep(w) ==
    /\ up[w].pc = "create"
    /\ LET name == CollectionName(up[w].file.filename)
           raised == CreateRaises(chroma, name)
           pc == AfterCreate(raised)
       IN  /\ chroma' = IF raised THEN chroma ELSE CreateCollection(chroma, name)
           /\ up' = [up EXCEPT ![w].pc = pc,
                               ![w].status = IF pc = "failed" THEN 500 ELSE 0]
    /\ UNCHANGED <<embedding_model, nextId, lastReq, loop, resp, calls, base>>

GetStep(w) ==
    /\ up[w].pc = "get"
    /\ LET raised == GetRaises(chroma, CollectionName(up[w].file.filename))
       IN  up' = [up EXCEPT ![w].pc = IF raised THEN "failed" ELSE "batch",
                            ![w].status = IF raised THEN 500 ELSE 0]
    /\ UNCHANGED <<embedding_model, chroma, nextId, lastReq, loop, resp, calls, base>>

\* one turn of the loop: the rows of the batch, their identifiers, encode, add
BatchStep(w) ==
    /\ up[w].pc = "batch"
    /\ up[w].i < Len(up[w].file.df.rows)
    /\ LET name == CollectionName(up[w].file.filename)
           batch == BatchRows(up[w].file.df.rows, up[w].i, up[w].bs)
           records == BatchRecords(batch, nextId)
       IN  IF name \in DOMAIN chroma
           THEN /\ chroma' = [chroma EXCEPT ![name] = Add(@, records)]
                /\ nextId' = nextId + Len(batch)
                /\ up' = [up EXCEPT ![w].i = @ + up[w].bs,
                                    ![w].written = @ \cup Ids(records)]
           ELSE /\ up' = [up EXCEPT ![w].pc = "failed", ![w].status = 500]
                /\ nextId' = nextId + Len(batch)
                /\ UNCHANGED chroma
    /\ UNCHANGED <<embedding_model, lastReq, loop, resp, calls, base>>

\* the loop is over: the summary is returned
FinishStep(w) ==
    /\ up[w].pc = "batch"
    /\ up[w].i >= Len(up[w].file.df.rows)
    /\ up' = [up EXCEPT ![w].pc = "done", ![w].status = 200]
    /\ UNCHANGED <<embedding_model, chroma, nextId, lastReq, loop, resp, calls, base>>

Begins == \E w \in Workers : Begin(w)

Creates == \E w \in Workers : CreateStep(w)

Gets == \E w \in Workers : GetStep(w)

Batches == \E w \in Workers : BatchStep(w)

Finishes == \E w \in Workers : FinishStep(w)

NextConc == Prior \/ Begins \/ Creates \/ Gets \/ Batches \/ Finishes

SpecConc == Init /\ [][NextConc]_vars

(***************************************************************************)
(* Properties of the sequential specification                              *)
(***************************************************************************)
Count(seq, x) == Cardinality({i \in 1..Len(seq) : seq[i] = x})

\* what the specification asks a row to become, identifier aside
RowDocument(row) == Str(row["Object_Text"])

RowMetadata(row) ==
    [c \in {d \in DOMAIN row \ {"Object_Text"} : row[d] # "nan"} |-> Str(row[c])]

\* the rows 1..n of the last upload are stored, in order, under the
\* identifiers handed out from loop.first on
RowsStored(records, rows, n) ==
    \A j \in 1..n : \E r \in records :
        /\ r.id = loop.first + j - 1
        /\ r.document = RowDocument(rows[j])
        /\ r.metadata = RowMetadata(rows[j])

UploadedName == CollectionName(lastReq.filename)

\* C1: an upload named *.csv, with the embedding model loaded, whose parsed
\* table lacks the column Object_Text is answered with a 4xx status and
\* leaves the store as it was.
C1_MissingColumnIs400 ==
    [][(/\ lastReq'.op = "upload"
        /\ EndsWith(lastReq'.filename, Csv)
        /\ embedding_model
        /\ lastReq'.parses
        /\ "Object_Text" \notin lastReq'.df.columns)
       => (resp'.status \in 400..499 /\ chroma' = chroma)]_vars

\* C2: an upload whose filename does not end in ".csv" is answered 400
\* without any store or embedding call, whatever the state (also with the
\* embedding model missing), and the store is unchanged.
C2_NonCsvRejectedFirst ==
    [][(lastReq'.op = "upload" /\ ~EndsWith(lastReq'.filename, Csv))
       => (resp'.status = 400 /\ calls' = <<>> /\ chroma' = chroma
           /\ nextId' = nextId)]_vars

C2_Witness ==
    /\ lastReq.op = "upload"
    /\ ~EndsWith(lastReq.filename, Csv)
    /\ ~embedding_model
    /\ DOMAIN chroma # {}
    /\ resp.status = 400

C4_OneRecordPerRow ==
    (/\ lastReq.op = "upload" /\ resp.status = 200
     /\ \A r \in chroma[UploadedName] : r.id >= loop.first)
    => LET rows == lastReq.df.rows
       IN  /\ resp.count = Len(rows)
           /\ resp.collection_name = UploadedName
           /\ Cardinality(chroma[UploadedName]) = Len(rows)
           /\ RowsStored(chroma[UploadedName], rows, Len(rows))

C4_Witness ==
    /\ lastReq.op = "upload" /\ resp.status = 200
    /\ loop.bs = 1
    /\ Len(lastReq.df.rows) = 2
    /\ Cardinality(chroma[UploadedName]) = 2

\* C5: POST /chat answers 200 with a response text for every request body
\* and every state.
C5_ChatAlways200 ==
    lastReq.op = "chat" => (resp.status = 200 /\ resp.detail # "")

\* C6: chat checks, in this order, message non-empty, embedding model
\* loaded, some collection exists; the first unmet check decides the answer,
\* an empty message makes no call at all and a missing model no store call.
C6_PreconditionOrder ==
    (lastReq.op = "chat" /\ lastReq.body.json = "object")
    => /\ lastReq.body.message = ""
            => (resp.detail = "Please provide a message to search." /\ calls = <<>>)
       /\ (lastReq.body.message # "" /\ ~embedding_model)
            => (resp.detail = "Embedding model not loaded." /\ calls = <<>>)
       /\ (lastReq.body.message # "" /\ embedding_model /\ DOMAIN chroma = {}
             /\ resp.cause = "")
            => (resp.detail = "No data collections available."
                /\ calls = <<"list_collections">>)

C6_Witness ==
    /\ lastReq.op = "chat" /\ lastReq.body.json = "object"
    /\ lastReq.body.message = ""
    /\ ~embedding_model
    /\ DOMAIN chroma = {}
    /\ resp.detail = "Please provide a message to search."

\* C7: when batch k of an upload raises, the answer is one 500 carrying the
\* cause, the call is not repeated and no later batch is sent, the
\* collection exists and holds, of this upload, exactly the rows of batches
\* 1..k-1.
C7_FailedBatchKeepsEarlier ==
    (lastReq.op = "upload" /\ loop.raised >= 1)
    => LET k == loop.raised
           kept == (k - 1) * loop.bs
       IN  /\ resp.status = 500
           /\ resp.cause \in {"encode", "add"}
           /\ Count(calls, "encode") = k
           /\ Count(calls, "add") = (IF resp.cause = "add" THEN k ELSE k - 1)
           /\ UploadedName \in DOMAIN chroma
           /\ Ids({r \in chroma[UploadedName] : r.id >= loop.first})
                = loop.first .. (loop.first + kept - 1)
           /\ RowsStored(chroma[UploadedName], lastReq.df.rows, kept)

C7_Witness ==
    /\ lastReq.op = "upload" /\ loop.raised = 2 /\ loop.bs = 1
    /\ resp.cause = "add"
    /\ \E r \in chroma[UploadedName] : r.id = loop.first

\* C8: deleting an unknown name answers 500 and changes nothing; deleting a
\* known name removes it with its records and leaves every other collection
\* as it was; a name that is absent reappears only through an upload
\* deriving it, and then holds only records of that upload; a listing shows
\* exactly the collections of the store with their counts.
C8_Delete ==
    [][/\ lastReq'.op = "delete"
          => IF lastReq'.name \notin DOMAIN chroma
             THEN resp'.status = 500 /\ chroma' = chroma
             ELSE /\ resp'.status = 200
                  /\ DOMAIN chroma' = DOMAIN chroma \ {lastReq'.name}
                  /\ \A n \in DOMAIN chroma' : chroma'[n] = chroma[n]
       /\ \A n \in DOMAIN chroma' \ DOMAIN chroma :
             /\ lastReq'.op = "upload"
             /\ CollectionName(lastReq'.filename) = n
             /\ \A r \in chroma'[n] : r.id >= nextId
       /\ (lastReq'.op = "list" /\ resp'.status = 200)
          => resp'.body = { [name |-> n, count |-> Cardinality(chroma'[n])] :
                              n \in DOMAIN chroma' }]_vars

C8_Witness ==
    /\ lastReq.op = "delete" /\ resp.status = 200
    /\ lastReq.name \notin DOMAIN chroma
    /\ \E n \in DOMAIN chroma : chroma[n] # {}

\* C9: a collection stays until a DELETE names it and none of its records
\* is removed or altered while it stays; chat and listing requests leave
\* the store as it was.
C9_OnlyDeleteRemoves ==
    [][/\ \A n \in DOMAIN chroma :
             \/ n \in DOMAIN chroma' /\ chroma[n] \subseteq chroma'[n]
             \/ lastReq'.op = "delete" /\ lastReq'.name = n
       /\ lastReq'.op \in {"chat", "list"} => chroma' = chroma]_vars

C9_Witness ==
    /\ lastReq.op = "upload" /\ resp.status = 500 /\ loop.raised >= 1
    /\ \E r \in chroma[UploadedName] : r.id < loop.first

(***************************************************************************)
(* Properties of the interleaved specification                             *)
(***************************************************************************)
WorkerName(w) == CollectionName(up[w].file.filename)

ValidUpload(w) ==
    /\ embedding_model
    /\ EndsWith(up[w].file.filename, Csv)
    /\ up[w].file.parses
    /\ "Object_Text" \in up[w].file.df.columns

Before(n) == IF n \in DOMAIN base THEN base[n] ELSE {}

\* C10: two uploads deriving the same collection name, their store calls
\* interleaved in any order: neither fails, no record a worker has written
\* is lost, and when both have returned the one collection holds what it
\* held before plus exactly the N + M rows of the two uploads.
C10_ConcurrentUploadsAppend ==
    /\ \A w \in Workers : up[w].pc = "failed" => ~ValidUpload(w)
    /\ \A w \in Workers : up[w].pc = "done" => up[w].status = 200
    /\ \A w \in Workers :
          up[w].pc \in {"batch", "done"}
          => /\ WorkerName(w) \in DOMAIN chroma
             /\ up[w].written \subseteq Ids(chroma[WorkerName(w)])
    /\ (up[1].pc = "done" /\ up[2].pc = "done" /\ WorkerName(1) = WorkerName(2))
       => LET n == WorkerName(1)
              N == Len(up[1].file.df.rows)
              M == Len(up[2].file.df.rows)
          IN  /\ Before(n) \subseteq chroma[n]
              /\ Cardinality(up[1].written) = N
              /\ Cardinality(up[2].written) = M
              /\ up[1].written \cap up[2].written = {}
              /\ Cardinality(chroma[n]) = Cardinality(Before(n)) + N + M

C10_Witness ==
    /\ up[1].pc = "done" /\ up[2].pc = "done"
    /\ WorkerName(1) = WorkerName(2)
    /\ up[1].file.filename # up[2].file.filename
    /\ \E a, c \in up[1].written : \E b \in up[2].written : a < b /\ b < c

====
